---- MODULE Spec2Model ----
(***************************************************************************)
(* A model of push50.py: slug resolution (_parse_slug), the two-level      *)
(* .cs50.yaml merge (_merge_cs50_yaml), the required-files check           *)
(* (_check_required), connect, and the SSH-then-HTTPS authentication       *)
(* protocol (authenticate, _authenticate_ssl, _authenticate_https).        *)
(*                                                                         *)
(* Text is modelled as a sequence of one-character strings.  Python        *)
(* objects that the code shares by reference (the parsed YAML mappings)    *)
(* live in an explicit heap.                                               *)
(***************************************************************************)
EXTENDS Naturals, Integers, Sequences, FiniteSets, TLC

VARIABLES
    \* ---- _parse_slug ----
    slug,        \* the slug argument
    offline,     \* the offline argument
    spc,         \* position inside _parse_slug
    org,         \* slug.split("/")[0]
    repo,        \* slug.split("/")[1]
    remainder,   \* slug[idx+1:]
    nested,      \* TRUE inside parse_branch(offline=True) called from parse_branch(False)
    branches,    \* the iterable the for loop of parse_branch walks
    calls,       \* the branch listings attempted so far, in order
    sres,        \* what _parse_slug returned or raised
    \* ---- the parsed YAML objects and _merge_cs50_yaml ----
    heap,        \* the Python objects (mappings and lists), by address
    heap0,       \* the heap as it was when _merge_cs50_yaml was called
    localRef,    \* cs50: the directory-local configuration
    rootRef,     \* root_cs50: the root-level configuration
    resultRef,   \* the object _merge_cs50_yaml returned
    mpc,         \* position of the _merge_cs50_yaml call
    mres,        \* "return" or the exception _merge_cs50_yaml raised
    \* ---- _check_required ----
    fs,          \* the working directory: what each path is
    reqRef,      \* tool_yaml: the tool section passed to _check_required
    rpc,         \* position of the _check_required call
    rres,        \* what _check_required returned or raised
    \* ---- connect ----
    tool,        \* the tool argument
    cpc,         \* position inside connect
    cbar,        \* the ProgressBar("Connecting") object
    cloc,        \* (problem_org, problem_repo, problem_branch, problem_dir)
    cfg,         \* cs50_yaml: the configuration connect works with
    clog,        \* what connect has done so far, in order
    rootResp,    \* how the fetch of the root-level .cs50.yaml ended
    cres,        \* what connect returns or raises
    \* ---- authenticate, _authenticate_ssl, _authenticate_https ----
    apc,         \* position inside "with authenticate(org) as user: ..."
    abar,        \* the ProgressBar("Authenticating") object
    ssh,         \* the spawned ssh child and what expect matched
    sshRes,      \* what _authenticate_ssl yielded or raised
    https,       \* the state of _authenticate_https
    hres,        \* what _authenticate_https yielded or raised
    cmds,        \* the git credential commands issued, in order
    inflight,    \* the exception in flight, if any
    aenter,      \* what entering authenticate gave its caller
    afinal,      \* how the with statement of the caller ended
    cache        \* what the credential cache daemon at the socket holds

slugVars == <<slug, offline, spc, org, repo, remainder, nested, branches, calls, sres>>

mergeVars == <<heap, heap0, localRef, rootRef, resultRef, mpc, mres>>

reqVars == <<fs, reqRef, rpc, rres>>

connVars == <<tool, cpc, cbar, cloc, cfg, clog, rootResp, cres>>

authVars == <<apc, abar, ssh, sshRes, https, hres, cmds, inflight, aenter, afinal, cache>>

vars == <<slugVars, mergeVars, reqVars, connVars, authVars>>

\* What the steps of each part leave alone
notSlugVars == <<mergeVars, reqVars, connVars, authVars>>
notMergeVars == <<slugVars, reqVars, connVars, authVars>>
notReqVars == <<slugVars, mergeVars, connVars, authVars>>
notAuthVars == <<slugVars, mergeVars, reqVars, connVars>>

-----------------------------------------------------------------------------
(* Bounds of the model *)

MaxSlugLen == 9
MaxBranches == 2
MaxRequired == 2

-----------------------------------------------------------------------------
(* Text helpers: Python str methods *)

Char == {"/", "m"}

Strings(n) == UNION {[1..k -> Char] : k \in 0..n}

Min(S) == CHOOSE x \in S : \A y \in S : x <= y

\* s.startswith(p)
StartsWith(s, p) == Len(p) <= Len(s) /\ SubSeq(s, 1, Len(p)) = p

\* s.endswith(p)
EndsWith(s, p) == Len(p) <= Len(s) /\ SubSeq(s, Len(s) - Len(p) + 1, Len(s)) = p

\* s.find(ch, start): 0-based index of the first ch at or after start, else -1
Find(s, ch, start) ==
    LET hits == {i \in start..(Len(s) - 1) : s[i + 1] = ch}
    IN  IF hits = {} THEN -1 ELSE Min(hits)

\* s[start:] with a 0-based start
From(s, start) == SubSeq(s, start + 1, Len(s))

RECURSIVE LStrip(_, _)
LStrip(s, ch) == IF s # <<>> /\ Head(s) = ch THEN LStrip(Tail(s), ch) ELSE s

RECURSIVE RStrip(_, _)
RStrip(s, ch) ==
    IF s # <<>> /\ s[Len(s)] = ch THEN RStrip(SubSeq(s, 1, Len(s) - 1), ch) ELSE s

\* s.strip(ch)
Strip(s, ch) == RStrip(LStrip(s, ch), ch)

\* s.split(sep): always at least one piece
RECURSIVE Split(_, _)
Split(s, sep) ==
    LET i == Find(s, sep, 0)
    IN  IF i = -1 THEN <<s>>
        ELSE <<SubSeq(s, 1, i)>> \o Split(From(s, i + 1), sep)

\* sep.join(parts)
RECURSIVE Join(_, _)
Join(parts, sep) ==
    IF parts = <<>> THEN <<>>
    ELSE IF Len(parts) = 1 THEN parts[1]
    ELSE parts[1] \o sep \o Join(Tail(parts), sep)

\* s.replace(tok, ""), for a one-element token
Remove(s, tok) == SelectSeq(s, LAMBDA c : c # tok)

\* str(pathlib.Path(s)) on a POSIX system: empty and "." segments are dropped,
\* a leading "/" is kept as the root (exactly two leading slashes are kept as
\* "//"), and the empty path is "."
PathStr(s) ==
    LET lead  == Len(s) - Len(LStrip(s, "/"))
        root  == IF lead = 2 THEN <<"/", "/">>
                 ELSE IF lead >= 1 THEN <<"/">> ELSE <<>>
        parts == SelectSeq(Split(s, "/"), LAMBDA p : p # <<>> /\ p # <<".">>)
        body  == root \o Join(parts, <<"/">>)
    IN  IF body = <<>> THEN <<".">> ELSE body

-----------------------------------------------------------------------------
(* _parse_slug *)

\* The branch names a repository may carry
BranchNames == {<<"m">>, <<"m", "m">>, <<"m", "/", "m">>}

BranchLists == UNION {[1..k -> BranchNames] : k \in 0..MaxBranches}

\* The outcome of a git listing command: the names listed, or GitError
GitError == [ok |-> FALSE, heads |-> <<>>]

Listed(heads) == [ok |-> TRUE, heads |-> heads]

\* Repo(...).branches: the cached mirror's branches, or GitError when the
\* mirror is missing or unreadable
LocalListings == {Listed(h) : h \in BranchLists} \cup {GitError}

\* git ls-remote --heads: the remote's heads, or GitError
RemoteListings == {Listed(h) : h \in BranchLists} \cup {GitError}

RefsHeads == "refs/heads/"
Tab == "\t"
Newline == "\n"

\* The text git.ls_remote returns for the given heads: one
\* "<sha>\trefs/heads/<branch>" line per head, no trailing newline
LsRemoteStdout(heads) ==
    Join([i \in 1..Len(heads) |-> <<"s", Tab, RefsHeads>> \o heads[i]], <<Newline>>)

\* The generator expression of parse_branch: its outer iterable is evaluated
\* at once, each element only when the for loop asks for it
RemoteBranches(stdout) == [kind |-> "genexpr", items |-> Split(stdout, Newline)]

\* map(str, Repo(...).branches)
LocalBranches(listing) == [kind |-> "map", items |-> listing]

NoBranches == [kind |-> "none", items |-> <<>>]

\* Evaluating one element of the iterable: line.split("\t")[1].replace(...)
\* raises IndexError on a line without a tab
ItemRaises(b, i) == b.kind = "genexpr" /\ Len(Split(b.items[i], Tab)) < 2

ItemValue(b, i) ==
    IF b.kind = "genexpr" THEN Remove(Split(b.items[i], Tab)[2], RefsHeads)
    ELSE b.items[i]

\* A variant of BranchMatches that forgets the "/" after the branch name
BranchMatchesNoSlash(rem, branch) == StartsWith(rem, branch)

\* remainder.startswith(f"{branch}/")
BranchMatches(rem, branch) == StartsWith(rem, branch \o <<"/">>)

\* A variant of the for loop that prefers the longest matching candidate
ForBranchLongest(b, rem, i) ==
    LET idx  == {k \in 1..Len(b.items) : ~ItemRaises(b, k) /\ BranchMatches(rem, ItemValue(b, k))}
        best == CHOOSE k \in idx : \A j \in idx : Len(ItemValue(b, j)) <= Len(ItemValue(b, k))
    IN  IF \E k \in 1..Len(b.items) : ItemRaises(b, k) THEN [kind |-> "IndexError"]
        ELSE IF idx = {} THEN [kind |-> "nomatch"]
        ELSE [kind    |-> "match",
              branch  |-> ItemValue(b, best),
              problem |-> From(rem, Len(ItemValue(b, best)) + 1)]

\* The for loop of parse_branch from element i on
RECURSIVE ForBranch(_, _, _)
ForBranch(b, rem, i) ==
    IF i > Len(b.items) THEN [kind |-> "nomatch"]
    ELSE IF ItemRaises(b, i) THEN [kind |-> "IndexError"]
    ELSE IF BranchMatches(rem, ItemValue(b, i))
         THEN [kind   |-> "match",
               branch |-> ItemValue(b, i),
               problem |-> From(rem, Len(ItemValue(b, i)) + 1)]
    ELSE ForBranch(b, rem, i + 1)

InvalidSlug(msg, arg) == [kind |-> "InvalidSlug", msg |-> msg, arg |-> arg]

NoResult == [kind |-> "none"]

Slugs == Strings(MaxSlugLen)

SlugIdle ==
    /\ spc = "idle" /\ slug = <<>> /\ offline = FALSE
    /\ org = <<>> /\ repo = <<>> /\ remainder = <<>>
    /\ nested = FALSE /\ branches = NoBranches /\ calls = <<>> /\ sres = NoResult

SlugInit ==
    /\ slug \in Slugs
    /\ offline \in BOOLEAN
    /\ spc = "start"
    /\ org = <<>> /\ repo = <<>> /\ remainder = <<>>
    /\ nested = FALSE
    /\ branches = NoBranches
    /\ calls = <<>>
    /\ sres = NoResult

SlugRaise(r) ==
    /\ spc' = "raised"
    /\ sres' = r

\* A variant of SlashError that strips the suggestion on the left only
SlashErrorLStrip(s) ==
    IF StartsWith(s, <<"/">>) /\ EndsWith(s, <<"/">>)
        THEN InvalidSlug("without the leading and trailing slashes", LStrip(s, "/"))
    ELSE IF StartsWith(s, <<"/">>)
        THEN InvalidSlug("without the leading slash", LStrip(s, "/"))
    ELSE IF EndsWith(s, <<"/">>)
        THEN InvalidSlug("without the trailing slash", LStrip(s, "/"))
    ELSE NoResult

\* Lines 198-203: the leading/trailing slash checks
SlashError(s) ==
    IF StartsWith(s, <<"/">>) /\ EndsWith(s, <<"/">>)
        THEN InvalidSlug("without the leading and trailing slashes", Strip(s, "/"))
    ELSE IF StartsWith(s, <<"/">>)
        THEN InvalidSlug("without the leading slash", Strip(s, "/"))
    ELSE IF EndsWith(s, <<"/">>)
        THEN InvalidSlug("without the trailing slash", Strip(s, "/"))
    ELSE NoResult

\* Line 206: the index of the second "/"
SecondSlash(s) == Find(s, "/", Find(s, "/", 0) + 1)

\* A variant of TriesLocalFirst that nests the offline attempt always
TriesLocalFirstAlways(off) == TRUE

\* Lines 216-218: parse_branch(offline) calls parse_branch(offline=True)
\* inside a try block of its own exactly when offline is false
TriesLocalFirst(off) == ~off

\* Lines 198-212 and the call of parse_branch(offline) up to its first listing
ParseSlugStart ==
    /\ spc = "start"
    /\ IF SlashError(slug) # NoResult
         THEN /\ SlugRaise(SlashError(slug))
              /\ UNCHANGED <<org, repo, remainder, nested>>
       ELSE IF SecondSlash(slug) = -1
         THEN /\ SlugRaise(InvalidSlug("slug", slug))
              /\ UNCHANGED <<org, repo, remainder, nested>>
       ELSE /\ remainder' = From(slug, SecondSlash(slug) + 1)
            /\ org' = Split(slug, "/")[1]
            /\ repo' = Split(slug, "/")[2]
            /\ nested' = TriesLocalFirst(offline)
            /\ spc' = "list_local"
            /\ UNCHANGED sres
    /\ UNCHANGED <<slug, offline, branches, calls>>
    /\ UNCHANGED notSlugVars

\* What follows InvalidSlug raised inside parse_branch(offline=True): caught by
\* the caller parse_branch(offline=False), which turns to the remote, or final
LocalFailed ==
    IF nested
        THEN /\ spc' = "list_remote"
             /\ nested' = FALSE
             /\ UNCHANGED sres
    ELSE /\ SlugRaise(InvalidSlug("slug", slug))
         /\ UNCHANGED nested

\* Line 223: list the branches of the cached mirror
ListLocal ==
    /\ spc = "list_local"
    /\ \E listing \in LocalListings :
          /\ calls' = Append(calls, "local")
          /\ IF listing = GitError
               THEN /\ LocalFailed
                    /\ UNCHANGED branches
             ELSE /\ branches' = LocalBranches(listing.heads)
                  /\ spc' = "for"
                  /\ UNCHANGED <<nested, sres>>
    /\ UNCHANGED <<slug, offline, org, repo, remainder>>
    /\ UNCHANGED notSlugVars

\* Lines 220-221: list the remote's heads
ListRemote ==
    /\ spc = "list_remote"
    /\ \E listing \in RemoteListings :
          /\ calls' = Append(calls, "remote")
          /\ IF listing = GitError
               THEN /\ SlugRaise(InvalidSlug("slug", slug))
                    /\ UNCHANGED branches
             ELSE /\ branches' = RemoteBranches(LsRemoteStdout(listing.heads))
                  /\ spc' = "for"
                  /\ UNCHANGED sres
    /\ UNCHANGED <<slug, offline, org, repo, remainder, nested>>
    /\ UNCHANGED notSlugVars

\* Lines 227-235: the for loop, and the return of _parse_slug
MatchBranch ==
    /\ spc = "for"
    /\ LET r == ForBranch(branches, remainder, 1)
       IN  IF r.kind = "match"
             THEN /\ spc' = "returned"
                  /\ sres' = [kind   |-> "return",
                              org    |-> org,
                              repo   |-> repo,
                              branch |-> r.branch,
                              path   |-> PathStr(r.problem)]
                  /\ UNCHANGED nested
           ELSE IF r.kind = "IndexError"
             THEN /\ SlugRaise([kind |-> "IndexError"])
                  /\ UNCHANGED nested
           ELSE IF branches.kind = "map"
             THEN LocalFailed
           ELSE /\ SlugRaise(InvalidSlug("slug", slug))
                /\ UNCHANGED nested
    /\ UNCHANGED <<slug, offline, org, repo, remainder, branches, calls>>
    /\ UNCHANGED notSlugVars

SlugNext == ParseSlugStart \/ ListLocal \/ ListRemote \/ MatchBranch

-----------------------------------------------------------------------------
(* The parsed .cs50.yaml documents: Python objects on a heap *)

Tools == {"check50", "submit50"}
Keys == {"include", "required"}

\* The order in which a document lists its tools and a tool its keys: the
\* iteration order of the parsed dict
ToolOrder == <<"check50", "submit50">>
KeyOrder == <<"include", "required">>

\* A value held by a mapping: a reference to a list object, or a scalar
Ref(a) == [t |-> "ref", a |-> a, s |-> <<>>]
Scalar(s) == [t |-> "scalar", a |-> 0, s |-> s]

NoItems == [k \in {} |-> Scalar(<<>>)]

DictCell(items) == [kind |-> "dict", items |-> items, elems |-> <<>>]
ListCell(elems) == [kind |-> "list", items |-> NoItems, elems |-> elems]

\* What a YAML document may give a key: nothing, a scalar, or a sequence
Absent == [t |-> "absent", s |-> <<>>]
YScalar == [t |-> "scalar", s |-> <<"1">>]
YList(elems) == [t |-> "list", s |-> elems]

Files == {"x", "y"}

YamlValues == {Absent, YScalar} \cup {YList(<<f>>) : f \in Files}

\* A tool's section as the document writes it
ToolShapes == [Keys -> YamlValues]

NoTool == [k \in Keys |-> [t |-> "notool", s |-> <<>>]]

\* A document: the section of each tool (or none), and whether the second
\* tool is a YAML alias (*anchor) of the first tool's section
Documents ==
    {[check50 |-> c, submit50 |-> b, alias |-> FALSE] :
        c \in ToolShapes \cup {NoTool}, b \in ToolShapes \cup {NoTool}}
    \cup {[check50 |-> c, submit50 |-> c, alias |-> TRUE] : c \in ToolShapes}

\* Keys of a mapping object in iteration order
InOrder(cell, order) == SelectSeq(order, LAMBDA k : k \in DOMAIN cell.items)

\* yaml.safe_load of one tool section: its lists, then its mapping, are
\* allocated at the end of heap h; the mapping is the last cell
LoadTool(h, shape) ==
    LET listKeys == SelectSeq(KeyOrder, LAMBDA k : shape[k].t = "list")
        lists    == [i \in 1..Len(listKeys) |-> ListCell(shape[listKeys[i]].s)]
        addrOf(k) == Len(h) + (CHOOSE i \in 1..Len(listKeys) : listKeys[i] = k)
        present  == {k \in Keys : shape[k].t \in {"list", "scalar"}}
        items    == [k \in present |->
                        IF shape[k].t = "list" THEN Ref(addrOf(k)) ELSE Scalar(shape[k].s)]
    IN  (h \o lists) \o <<DictCell(items)>>

\* yaml.safe_load of a document: returns the heap with the document's objects
\* appended; the top-level mapping is the last cell
LoadYaml(h, doc) ==
    LET h1 == IF doc.check50 = NoTool THEN h ELSE LoadTool(h, doc.check50)
        c  == Len(h1)
        h2 == IF doc.submit50 = NoTool \/ doc.alias THEN h1 ELSE LoadTool(h1, doc.submit50)
        b  == IF doc.alias THEN c ELSE Len(h2)
        present == {t \in Tools : doc[t] # NoTool}
        items == [t \in present |-> IF t = "check50" THEN Ref(c) ELSE Ref(b)]
    IN  h2 \o <<DictCell(items)>>

\* The objects a cell refers to
Refs(cell) == {cell.items[k].a : k \in {j \in DOMAIN cell.items : cell.items[j].t = "ref"}}

\* The objects reachable from the objects S
RECURSIVE Reach(_, _)
Reach(h, S) ==
    LET T == S \cup UNION {Refs(h[a]) : a \in S}
    IN  IF T = S THEN S ELSE Reach(h, T)

IsList(h, v) == v.t = "ref" /\ h[v.a].kind = "list"

\* d[k] = v on the mapping object at address a
SetItem(h, a, k, v) == [h EXCEPT ![a].items = (k :> v) @@ @]

-----------------------------------------------------------------------------
(* _merge_cs50_yaml *)

\* A variant of DeepCopy that copies nothing: result is root_cs50 itself
NoCopy(h, root) == [heap |-> h, ref |-> root]

\* copy.deepcopy(root): every object reachable from root is copied once, so
\* objects shared inside root are shared inside the copy
DeepCopy(h, root) ==
    LET R        == Reach(h, {root})
        rank(a)  == Cardinality({b \in R : b <= a})
        new(a)   == Len(h) + rank(a)
        old(i)   == CHOOSE a \in R : rank(a) = i
        copyVal(v)  == IF v.t = "ref" THEN Ref(new(v.a)) ELSE v
        copyCell(c) == [kind  |-> c.kind,
                        items |-> [k \in DOMAIN c.items |-> copyVal(c.items[k])],
                        elems |-> c.elems]
    IN  [heap |-> h \o [i \in 1..Cardinality(R) |-> copyCell(h[old(i)])],
         ref  |-> new(root)]

\* Lines 254-260: the loop over the keys of cs50[tool], from the i-th on
RECURSIVE MergeKeys(_, _, _, _, _, _, _)
MergeKeys(st, local, root, result, tname, keys, i) ==
    IF st.exc # "none" \/ i > Len(keys) THEN st
    ELSE
        LET h       == st.heap
            key     == keys[i]
            lv      == h[h[local].items[tname].a].items[key]
            rt      == h[h[root].items[tname].a]
            resAddr == h[result].items[tname].a
            cur     == h[resAddr].items[key]
            next    ==
                IF key \in DOMAIN rt.items /\ IsList(h, rt.items[key])
                    THEN IF IsList(h, cur) /\ IsList(h, lv)
                            \* list + list builds a new list
                            THEN [heap |-> SetItem(Append(h, ListCell(h[cur.a].elems \o h[lv.a].elems)),
                                                   resAddr, key, Ref(Len(h) + 1)),
                                  exc  |-> "none"]
                         ELSE [heap |-> h, exc |-> "TypeError"]
                ELSE [heap |-> SetItem(h, resAddr, key, lv), exc |-> "none"]
        IN  MergeKeys(next, local, root, result, tname, keys, i + 1)

\* Lines 249-260: the loop over the tools of cs50, from the i-th on
RECURSIVE MergeTools(_, _, _, _, _, _)
MergeTools(st, local, root, result, tools, i) ==
    IF st.exc # "none" \/ i > Len(tools) THEN st
    ELSE
        LET h    == st.heap
            tname == tools[i]
            next ==
                IF tname \notin DOMAIN h[root].items
                    THEN [heap |-> SetItem(h, result, tname, h[local].items[tname]),
                          exc  |-> "none"]
                ELSE MergeKeys(st, local, root, result, tname,
                               InOrder(h[h[local].items[tname].a], KeyOrder), 1)
        IN  MergeTools(next, local, root, result, tools, i + 1)

\* _merge_cs50_yaml(cs50, root_cs50) on heap h: the heap afterwards, the
\* exception raised if any, and the object returned
_merge_cs50_yaml(h, local, root) ==
    LET c  == DeepCopy(h, root)
        st == MergeTools([heap |-> c.heap, exc |-> "none"], local, root, c.ref,
                         InOrder(h[local], ToolOrder), 1)
    IN  [heap |-> st.heap, exc |-> st.exc, ref |-> c.ref]

MergeIdle ==
    /\ heap = <<>> /\ heap0 = <<>>
    /\ localRef = 0 /\ rootRef = 0 /\ resultRef = 0
    /\ mpc = "idle" /\ mres = "none"

MergeInit ==
    \E dl \in Documents : \E dr \in Documents :
        /\ heap = LoadYaml(LoadYaml(<<>>, dl), dr)
        /\ heap0 = heap
        /\ localRef = Len(LoadYaml(<<>>, dl))
        /\ rootRef = Len(heap)
        /\ resultRef = 0
        /\ mpc = "call"
        /\ mres = "none"

\* The call _merge_cs50_yaml(cs50, root_cs50)
MergeCall ==
    /\ mpc = "call"
    /\ LET r == _merge_cs50_yaml(heap, localRef, rootRef)
       IN  /\ heap' = r.heap
           /\ mres' = (IF r.exc = "none" THEN "return" ELSE r.exc)
           /\ resultRef' = (IF r.exc = "none" THEN r.ref ELSE 0)
    /\ mpc' = "done"
    /\ UNCHANGED <<heap0, localRef, rootRef>>
    /\ UNCHANGED notMergeVars

-----------------------------------------------------------------------------
(* _check_required *)

\* What a path of the working directory is
FileKinds == {"file", "dir", "none"}

FileSystems == [Files -> FileKinds]

\* A variant of IsFile that accepts anything that exists
PathExists(fsys, f) == fsys[f] # "none"

\* os.path.isfile(f)
IsFile(fsys, f) == fsys[f] = "file"

Error(lines) == [kind |-> "Error", msg |-> lines]

Returned == [kind |-> "return", msg |-> <<>>]

Raised(exc) == [kind |-> exc, msg |-> <<>>]

\* Line 274-277: the message, its three parts joined by newlines
MissingMessage(missing) ==
    <<"You seem to be missing these files:", Newline>>
        \o Join([i \in 1..Len(missing) |-> <<missing[i]>>], <<Newline>>)
        \o <<Newline, "Ensure you have the required files before submitting.">>

\* _check_required(tool_yaml) for the mapping object at address a
_check_required(h, a, fsys) ==
    IF "required" \notin DOMAIN h[a].items THEN Returned
    ELSE IF ~IsList(h, h[a].items["required"]) THEN Raised("TypeError")
    ELSE LET required == h[h[a].items["required"].a].elems
             missing  == SelectSeq(required, LAMBDA f : ~IsFile(fsys, f))
         IN  IF missing # <<>> THEN Error(MissingMessage(missing)) ELSE Returned

RequiredLists == UNION {[1..k -> Files] : k \in 0..MaxRequired}

RequiredValues == {Absent, YScalar} \cup {YList(l) : l \in RequiredLists}

ReqIdle ==
    /\ fs = [f \in Files |-> "none"] /\ reqRef = 0
    /\ rpc = "idle" /\ rres = Raised("none")

ReqInit ==
    \E req \in RequiredValues : \E inc \in {Absent, YList(<<"x">>)} :
        /\ heap = LoadTool(<<>>, [k \in Keys |-> IF k = "required" THEN req ELSE inc])
        /\ heap0 = heap
        /\ reqRef = Len(heap)
        /\ fs \in FileSystems
        /\ rpc = "call"
        /\ rres = Raised("none")
        /\ localRef = 0 /\ rootRef = 0 /\ resultRef = 0
        /\ mpc = "idle" /\ mres = "none"

\* The call _check_required(tool_yaml)
CheckRequiredCall ==
    /\ rpc = "call"
    /\ rres' = _check_required(heap, reqRef, fs)
    /\ rpc' = "done"
    /\ UNCHANGED <<fs, reqRef>>
    /\ UNCHANGED notReqVars

-----------------------------------------------------------------------------
(* ProgressBar *)

\* Lines 170-173: ProgressBar(message)
NewBar == [progressing |-> TRUE, thread |-> "none"]

\* Lines 181-191: __enter__ starts the thread
BarEnter(b) == [b EXCEPT !.thread = "running"]

\* Lines 175-179: stop clears the flag and joins the thread, once
BarStop(b) ==
    IF b.progressing THEN [progressing |-> FALSE, thread |-> "joined"] ELSE b

-----------------------------------------------------------------------------
(* _get_content_from and connect *)

\* The slugs connect is called with
ConnectSlugs == {<<"m", "/", "m", "/", "m", "/", "m", "/", "m">>, <<"m", "/", "m">>}

\* The .cs50.yaml documents the remote may serve
ConnectShapes == {[k \in Keys |-> IF k = "required" THEN v ELSE Absent] : v \in YamlValues}

ConnectDocuments ==
    {[check50 |-> c, submit50 |-> b, alias |-> FALSE] :
        c \in ConnectShapes \cup {NoTool},
        b \in {NoTool, [k \in Keys |-> IF k = "required" THEN YList(<<"y">>) ELSE Absent]}}
    \cup {[check50 |-> c, submit50 |-> c, alias |-> TRUE] : c \in ConnectShapes}

NoDocument == [check50 |-> NoTool, submit50 |-> NoTool, alias |-> FALSE]

\* How requests.get may end: a success response carrying a document, a
\* response that is not ok, or no response (requests raises ConnectionError)
FetchOutcomes ==
    {[kind |-> "ok", doc |-> d] : d \in ConnectDocuments}
    \cup {[kind |-> "notok", doc |-> NoDocument], [kind |-> "noresponse", doc |-> NoDocument]}

\* _get_content_from for a request that ends as resp
_get_content_from(resp) ==
    IF resp.kind = "ok" THEN Returned
    ELSE IF resp.kind = "notok"
        THEN Error(<<"Invalid slug. Did you mean to submit something else?">>)
    ELSE Raised("ConnectionError")

\* A variant of ToolMissing that never finds the tool missing
ToolMissingNever(h, doc, t) == FALSE

\* Line 66: tool not in cs50_yaml
ToolMissing(h, doc, t) == t \notin DOMAIN h[doc].items

Outcome(r) == [kind |-> r.kind, msg |-> r.msg, ref |-> 0]

ConnIdle ==
    /\ tool = "check50" /\ cpc = "idle" /\ cbar = NewBar
    /\ cloc = NoResult /\ cfg = 0 /\ clog = <<>>
    /\ rootResp = "none" /\ cres = Outcome(Raised("none"))

ConnInit ==
    /\ tool \in Tools
    /\ cpc = "start" /\ cbar = NewBar
    /\ cloc = NoResult /\ cfg = 0 /\ clog = <<>>
    /\ rootResp = "none" /\ cres = Outcome(Raised("none"))
    /\ slug \in ConnectSlugs /\ offline = FALSE /\ spc = "idle"
    /\ org = <<>> /\ repo = <<>> /\ remainder = <<>>
    /\ nested = FALSE /\ branches = NoBranches /\ calls = <<>> /\ sres = NoResult
    /\ MergeIdle
    /\ fs \in FileSystems /\ reqRef = 0 /\ rpc = "idle" /\ rres = Raised("none")

\* Lines 58-59: enter the ProgressBar and call _parse_slug(branch)
ConnectStart ==
    /\ cpc = "start"
    /\ cbar' = BarEnter(cbar)
    /\ spc' = "start"
    /\ cpc' = "parse_slug"
    /\ UNCHANGED <<slug, offline, org, repo, remainder, nested, branches, calls, sres>>
    /\ UNCHANGED <<tool, cloc, cfg, clog, rootResp, cres>>
    /\ UNCHANGED <<mergeVars, reqVars, authVars>>

\* Line 59: _parse_slug has returned or raised; its frame is gone
ConnectResolved ==
    /\ cpc = "parse_slug"
    /\ spc \in {"returned", "raised"}
    /\ IF spc = "returned"
         THEN /\ cloc' = sres
              /\ cpc' = "fetch_local"
              /\ UNCHANGED cres
       ELSE /\ cres' = [kind |-> sres.kind, msg |-> <<>>, ref |-> 0]
            /\ cpc' = "exit"
            /\ UNCHANGED cloc
    /\ spc' = "idle"
    /\ org' = <<>> /\ repo' = <<>> /\ remainder' = <<>>
    /\ nested' = FALSE /\ branches' = NoBranches /\ calls' = <<>> /\ sres' = NoResult
    /\ UNCHANGED <<slug, offline>>
    /\ UNCHANGED <<tool, cbar, cfg, clog, rootResp>>
    /\ UNCHANGED <<mergeVars, reqVars, authVars>>

\* Lines 62-67: fetch and parse the .cs50.yaml of the problem directory, and
\* look for the tool in it
ConnectFetchLocal ==
    /\ cpc = "fetch_local"
    /\ \E resp \in FetchOutcomes :
          LET got == _get_content_from(resp)
              h   == LoadYaml(heap, resp.doc)
          IN  /\ clog' = Append(clog, "get_local")
              /\ IF got # Returned
                   THEN /\ cres' = Outcome(got)
                        /\ cpc' = "exit"
                        /\ UNCHANGED <<heap, localRef, cfg>>
                 ELSE /\ heap' = h
                      /\ localRef' = Len(h)
                      /\ cfg' = Len(h)
                      /\ IF ToolMissing(h, Len(h), tool)
                           THEN /\ cres' = [kind |-> "InvalidSlug",
                                            msg  |-> <<"Invalid slug for {}, did you mean something else?", tool>>,
                                            ref  |-> 0]
                                /\ cpc' = "exit"
                         ELSE /\ cpc' = "fetch_root"
                              /\ UNCHANGED cres
    /\ UNCHANGED <<heap0, rootRef, resultRef, mpc, mres>>
    /\ UNCHANGED <<tool, cbar, cloc, rootResp>>
    /\ UNCHANGED <<slugVars, reqVars, authVars>>

\* Lines 70-76: fetch the root .cs50.yaml; Error means there is none,
\* otherwise parse it and merge
ConnectFetchRoot ==
    /\ cpc = "fetch_root"
    /\ \E resp \in FetchOutcomes :
          LET got == _get_content_from(resp)
              h   == LoadYaml(heap, resp.doc)
              r   == _merge_cs50_yaml(h, localRef, Len(h))
          IN  /\ rootResp' = resp.kind
              /\ IF got.kind = "Error"
                   THEN /\ clog' = Append(clog, "get_root")
                        /\ cpc' = "check_required"
                        /\ UNCHANGED <<heap, heap0, rootRef, resultRef, mres, cfg, cres>>
                 ELSE IF got # Returned
                   THEN /\ clog' = Append(clog, "get_root")
                        /\ cres' = Outcome(got)
                        /\ cpc' = "exit"
                        /\ UNCHANGED <<heap, heap0, rootRef, resultRef, mres, cfg>>
                 ELSE /\ clog' = clog \o <<"get_root", "merge">>
                      /\ heap0' = h
                      /\ rootRef' = Len(h)
                      /\ heap' = r.heap
                      /\ mres' = (IF r.exc = "none" THEN "return" ELSE r.exc)
                      /\ IF r.exc = "none"
                           THEN /\ resultRef' = r.ref
                                /\ cfg' = r.ref
                                /\ cpc' = "check_required"
                                /\ UNCHANGED cres
                         ELSE /\ cres' = Outcome(Raised(r.exc))
                              /\ cpc' = "exit"
                              /\ UNCHANGED <<resultRef, cfg>>
    /\ UNCHANGED <<localRef, mpc>>
    /\ UNCHANGED <<tool, cbar, cloc>>
    /\ UNCHANGED <<slugVars, reqVars, authVars>>

\* Lines 79-81: _check_required(cs50_yaml[tool]) and return cs50_yaml[tool]
ConnectCheckRequired ==
    /\ cpc = "check_required"
    /\ IF ToolMissing(heap, cfg, tool)
         THEN /\ cres' = Outcome(Raised("KeyError"))
              /\ UNCHANGED <<clog, reqRef, rres>>
       ELSE LET section == heap[cfg].items[tool].a
                r       == _check_required(heap, section, fs)
            IN  /\ clog' = Append(clog, "check_required")
                /\ reqRef' = section
                /\ rres' = r
                /\ cres' = (IF r = Returned
                              THEN [kind |-> "return", msg |-> <<>>, ref |-> section]
                            ELSE Outcome(r))
    /\ cpc' = "exit"
    /\ UNCHANGED <<fs, rpc>>
    /\ UNCHANGED <<tool, cbar, cloc, cfg, rootResp>>
    /\ UNCHANGED <<slugVars, mergeVars, authVars>>

\* Lines 58 and 193-194: leaving the with block stops the ProgressBar, on
\* return and on exception alike
ConnectExit ==
    /\ cpc = "exit"
    /\ cbar' = BarStop(cbar)
    /\ cpc' = (IF cres.kind = "return" THEN "returned" ELSE "raised")
    /\ UNCHANGED <<tool, cloc, cfg, clog, rootResp, cres>>
    /\ UNCHANGED <<slugVars, mergeVars, reqVars, authVars>>

-----------------------------------------------------------------------------
(* authenticate, _authenticate_ssl, _authenticate_https *)

\* The org argument
TheOrg == "check50"

\* An optional text: None, or a str
None == [some |-> FALSE, v |-> ""]
Some(text) == [some |-> TRUE, v |-> text]

\* Python truthiness of an optional text
Truthy(o) == o.some /\ o.v # ""

\* The account names GitHub reports, and the names and passwords a user types
Logins == {"alice"}
TypedNames == {Some("alice"), Some("Alice"), None}
TypedPasswords == {"pw", ""}
CachedPasswords == {"pw"}

NoUser == [name |-> "", password |-> None, email |-> <<>>, repo |-> <<>>]

\* Lines 308-311: the User of the SSH path
SshUser(o, name) ==
    [name     |-> name,
     password |-> None,
     email    |-> <<name, "@users.noreply.github.com">>,
     repo     |-> <<"git@github.com/", o, "/", name>>]

\* Lines 360-363: the User of the HTTPS path
HttpsUser(o, name, password) ==
    [name     |-> name,
     password |-> Some(password),
     email    |-> <<name, "@users.noreply.github.com">>,
     repo     |-> <<"https://", name, "@github.com/", o, "/", name>>]

Pending == [kind |-> "pending", user |-> NoUser, exc |-> "none"]
Yielded(u) == [kind |-> "yield", user |-> u, exc |-> "none"]
Raising(e) == [kind |-> "raise", user |-> NoUser, exc |-> e]

\* Line 304: the patterns of child.expect, by index
SshPatterns == <<"Hi (.+)! You've successfully authenticated",
                 "Enter passphrase for key",
                 "Permission denied",
                 "Are you sure you want to continue connecting">>

\* How child.expect may end: the index of the pattern matched, or the
\* exception pexpect raises when the output ends or the timeout passes with
\* no pattern matched
ExpectRaises == {"EOF", "TIMEOUT"}

NoSsh == [child |-> "none", i |-> -1, name |-> ""]

\* cause is the first exception raised inside the try block of lines 322-363
NoHttps == [started |-> FALSE, username |-> None, password |-> None,
            status |-> 0, otp |-> FALSE, yielded |-> FALSE, cause |-> "none"]

\* The status codes and headers the validation request may come back with
StatusCodes == {200, 401, 403}

\* Line 320: the socket of the credential cache daemon
Socket == "~/.git-credential-cache/push50"

\* Line 323: the helper given to git credential fill; the f-string puts the
\* socket in, and the quotes close
FillHelper == <<"'", "cache --socket ", Socket, "'">>

\* Line 357: the helper given to git credential approve; the string is not
\* an f-string, so the braces stay as they are, and the quote is not closed
ApproveHelper == <<"'", "cache --socket ", "{socket}", " --timeout ", "{timeout}">>

\* Line 365: the action handed to git credential-cache is the builtin exit,
\* which the command line receives as str(exit)
BuiltinExit == "Use exit() or Ctrl-D (i.e. EOF) to exit"

\* The strings of lines 356 and 367, as key, "=", value
Line(key, value) == <<key, "=", value>>

RECURSIVE Flatten(_)
Flatten(ss) == IF ss = <<>> THEN <<>> ELSE Head(ss) \o Flatten(Tail(ss))

RECURSIVE Concat(_)
Concat(ss) == IF ss = <<>> THEN "" ELSE Head(ss) \o Concat(Tail(ss))

\* Lines 374-378: writelines writes the strings one after the other with no
\* newline between them, so the reader of the file finds one line
_file_buffer(contents) == IF contents = <<>> THEN <<>> ELSE <<Flatten(contents)>>

\* How git reads a credential from its input: each line is key=value, cut
\* at the first "="
HasField(lines, key) ==
    \E i \in 1..Len(lines) : Len(lines[i]) >= 2 /\ lines[i][1] = key /\ lines[i][2] = "="

FieldOf(lines, key) ==
    LET i == CHOOSE j \in 1..Len(lines) :
                 Len(lines[j]) >= 2 /\ lines[j][1] = key /\ lines[j][2] = "="
    IN  Concat(SubSeq(lines[i], 3, Len(lines[i])))

\* A command of the git credential family as the code issues it
Command(prog, helper, action, stdin) ==
    [prog |-> prog, helper |-> helper, action |-> action, stdin |-> stdin]

\* What the cache daemon holds
NoCredential == [held |-> FALSE, name |-> "", password |-> ""]
Credential(name, password) == [held |-> TRUE, name |-> name, password |-> password]

\* The cache before authenticate runs: empty, or a pair from earlier
InitialCaches ==
    {NoCredential} \cup {Credential(n, pw) : n \in Logins, pw \in CachedPasswords}

\* git runs the helper through the shell, which needs the quotes to close
ShellParses(helper) == Cardinality({i \in 1..Len(helper) : helper[i] = "'"}) % 2 = 0

\* Lines 356-358: what git credential approve leaves in the cache at Socket:
\* it stores only a credential with a username and a password, through a
\* helper that runs and that talks to that socket
CredentialApprove(held, cmd) ==
    IF /\ HasField(cmd.stdin, "username")
       /\ HasField(cmd.stdin, "password")
       /\ ShellParses(cmd.helper)
       /\ cmd.helper[3] = Socket
    THEN Credential(FieldOf(cmd.stdin, "username"), FieldOf(cmd.stdin, "password"))
    ELSE held

\* Line 365: what git credential-cache leaves in the cache: exit ends the
\* daemon, erase drops the entry, any other action is ignored
CredentialCache(held, cmd) ==
    IF cmd.action \in {"exit", "erase"} THEN NoCredential ELSE held

AuthIdle ==
    /\ apc = "idle" /\ abar = NewBar /\ ssh = NoSsh /\ sshRes = Pending
    /\ https = NoHttps /\ hres = Pending /\ cmds = <<>> /\ inflight = "none"
    /\ aenter = Pending /\ afinal = "none" /\ cache = NoCredential

AuthInit ==
    /\ apc = "start" /\ abar = NewBar /\ ssh = NoSsh /\ sshRes = Pending
    /\ https = NoHttps /\ hres = Pending /\ cmds = <<>> /\ inflight = "none"
    /\ aenter = Pending /\ afinal = "none" /\ cache \in InitialCaches

\* Line 90: enter the ProgressBar
AuthEnter ==
    /\ apc = "start"
    /\ abar' = BarEnter(abar)
    /\ apc' = "ssh_spawn"
    /\ UNCHANGED <<ssh, sshRes, https, hres, cmds, inflight, aenter, afinal, cache>>
    /\ UNCHANGED notAuthVars

\* Line 302: pexpect.spawn("ssh git@github.com"), which raises when ssh
\* cannot be run
SshSpawn ==
    /\ apc = "ssh_spawn"
    /\ \/ /\ ssh' = [ssh EXCEPT !.child = "running"]
          /\ apc' = "ssh_expect"
          /\ UNCHANGED <<sshRes, inflight>>
       \/ /\ sshRes' = Raising("ExceptionPexpect")
          /\ inflight' = "ExceptionPexpect"
          /\ apc' = "bar_exit"
          /\ UNCHANGED ssh
    /\ UNCHANGED <<abar, https, hres, cmds, aenter, afinal, cache>>
    /\ UNCHANGED notAuthVars

\* Line 304: child.expect([...])
SshExpect ==
    /\ apc = "ssh_expect"
    /\ \/ \E i \in 0..(Len(SshPatterns) - 1) : \E name \in Logins :
             /\ ssh' = [ssh EXCEPT !.i = i, !.name = IF i = 0 THEN name ELSE ""]
             /\ apc' = "ssh_close"
             /\ UNCHANGED <<sshRes, inflight>>
       \/ \E e \in ExpectRaises :
             /\ ssh' = [ssh EXCEPT !.child = IF e = "EOF" THEN "exited" ELSE "running"]
             /\ sshRes' = Raising(e)
             /\ inflight' = e
             /\ apc' = "bar_exit"
    /\ UNCHANGED <<abar, https, hres, cmds, aenter, afinal, cache>>
    /\ UNCHANGED notAuthVars

\* Line 305: child.close()
SshClose ==
    /\ apc = "ssh_close"
    /\ ssh' = [ssh EXCEPT !.child = "closed"]
    /\ apc' = "ssh_yield"
    /\ UNCHANGED <<abar, sshRes, https, hres, cmds, inflight, aenter, afinal, cache>>
    /\ UNCHANGED notAuthVars

\* Lines 306-313: yield the User, or None
SshYield ==
    /\ apc = "ssh_yield"
    /\ sshRes' = (IF ssh.i = 0 THEN Yielded(SshUser(TheOrg, ssh.name)) ELSE Yielded(NoUser))
    /\ apc' = "auth_ssh"
    /\ UNCHANGED <<abar, ssh, https, hres, cmds, inflight, aenter, afinal, cache>>
    /\ UNCHANGED notAuthVars

\* A variant of SshGaveUser that never takes the SSH result
SshGaveUserNever(r) == FALSE

\* Line 93: if user
SshGaveUser(r) == r.user # NoUser

\* Lines 92-97: with the SSH User, yield it; without, leave the SSH block,
\* stop the ProgressBar and turn to HTTPS
AuthAfterSsh ==
    /\ apc = "auth_ssh"
    /\ IF SshGaveUser(sshRes)
         THEN /\ aenter' = Yielded(sshRes.user)
              /\ apc' = "body"
              /\ UNCHANGED abar
       ELSE /\ abar' = BarStop(abar)
            /\ apc' = "https_fill"
            /\ UNCHANGED aenter
    /\ UNCHANGED <<ssh, sshRes, https, hres, cmds, inflight, afinal, cache>>
    /\ UNCHANGED notAuthVars

\* Lines 318-333: git credential fill against the cache socket; only the
\* username=/password= answer, which needs a pair in the cache, gives a
\* pair, a prompt gives none; without a password the user is asked
HttpsFill ==
    /\ apc = "https_fill"
    /\ cmds' = Append(cmds, Command("credential fill", FillHelper, "fill", <<>>))
    /\ \/ \E i \in (IF cache.held THEN {2} ELSE {0, 1}) :
             LET username == IF i = 2 THEN Some(cache.name) ELSE None
                 password == IF i = 2 THEN Some(cache.password) ELSE None
             IN  /\ https' = [https EXCEPT !.started = TRUE,
                                            !.username = username, !.password = password]
                 /\ apc' = (IF ~Truthy(password) THEN "https_prompt" ELSE "https_validate")
                 /\ UNCHANGED inflight
       \/ \E e \in ExpectRaises \cup {"ExceptionPexpect"} :
             /\ https' = [https EXCEPT !.started = TRUE, !.cause = e]
             /\ inflight' = e
             /\ apc' = "https_cleanup"
    /\ UNCHANGED <<abar, ssh, sshRes, hres, aenter, afinal, cache>>
    /\ UNCHANGED notAuthVars

\* Lines 334-335 and 380-414: ask for the username and the password;
\* ctrl-c during the password raises KeyboardInterrupt
HttpsPrompt ==
    /\ apc = "https_prompt"
    /\ \/ \E name \in TypedNames : \E pw \in TypedPasswords :
             /\ https' = [https EXCEPT !.username = name, !.password = Some(pw)]
             /\ apc' = "https_validate"
             /\ UNCHANGED inflight
       \/ /\ inflight' = "KeyboardInterrupt"
          /\ apc' = "https_cleanup"
          /\ https' = [https EXCEPT !.cause = "KeyboardInterrupt"]
    /\ UNCHANGED <<abar, ssh, sshRes, hres, cmds, aenter, afinal, cache>>
    /\ UNCHANGED notAuthVars

\* Lines 340-348: what the checks of the response raise, if anything
ResponseError(status, otp) ==
    IF otp THEN "Error: two-factor authentication"
    ELSE IF status = 401 THEN "Error: Invalid username and/or password."
    ELSE IF status # 200 THEN "Error: Could not authenticate user."
    ELSE "none"

\* Lines 337-352: validate the pair against the API and take the login the
\* API reports as the username
HttpsValidate ==
    /\ apc = "https_validate"
    /\ \/ \E status \in StatusCodes : \E otp \in BOOLEAN : \E login \in Logins :
             /\ IF ResponseError(status, otp) # "none"
                  THEN /\ inflight' = ResponseError(status, otp)
                       /\ apc' = "https_cleanup"
                       /\ https' = [https EXCEPT !.status = status, !.otp = otp,
                                                  !.cause = ResponseError(status, otp)]
                ELSE /\ https' = [https EXCEPT !.status = status, !.otp = otp,
                                                !.username = Some(login)]
                     /\ apc' = "https_approve"
                     /\ UNCHANGED inflight
       \/ /\ inflight' = "ConnectionError"
          /\ apc' = "https_cleanup"
          /\ https' = [https EXCEPT !.cause = "ConnectionError"]
    /\ UNCHANGED <<abar, ssh, sshRes, hres, cmds, aenter, afinal, cache>>
    /\ UNCHANGED notAuthVars

\* Lines 354-358: git credential approve, fed the username and the password
\* through _file_buffer
HttpsApprove ==
    /\ apc = "https_approve"
    /\ LET f == _file_buffer(<<Line("username", https.username.v),
                               Line("password", https.password.v)>>)
           cmd == Command("credential approve", ApproveHelper, "approve", f)
       IN  /\ cmds' = Append(cmds, cmd)
           /\ \/ /\ cache' = CredentialApprove(cache, cmd)
                 /\ apc' = "https_yield"
                 /\ UNCHANGED <<inflight, https>>
              \/ /\ inflight' = "GitError"
                 /\ https' = [https EXCEPT !.cause = "GitError"]
                 /\ apc' = "https_cleanup"
                 /\ UNCHANGED cache
    /\ UNCHANGED <<abar, ssh, sshRes, hres, aenter, afinal>>
    /\ UNCHANGED notAuthVars

\* Lines 360-363: yield the User
HttpsYield ==
    /\ apc = "https_yield"
    /\ hres' = Yielded(HttpsUser(TheOrg, https.username.v, https.password.v))
    /\ https' = [https EXCEPT !.yielded = TRUE]
    /\ apc' = "auth_https"
    /\ UNCHANGED <<abar, ssh, sshRes, cmds, inflight, aenter, afinal, cache>>
    /\ UNCHANGED notAuthVars

\* Lines 98-99: yield the User of _authenticate_https
AuthYieldHttps ==
    /\ apc = "auth_https"
    /\ aenter' = Yielded(hres.user)
    /\ apc' = "body"
    /\ UNCHANGED <<abar, ssh, sshRes, https, hres, cmds, inflight, afinal, cache>>
    /\ UNCHANGED notAuthVars

\* Lines 42-48: the body of the caller's with statement ends, normally or
\* with an exception, which is thrown into the generators at their yield
Body ==
    /\ apc = "body"
    /\ \/ /\ apc' = "bar_exit"
          /\ UNCHANGED <<inflight, https>>
       \/ /\ inflight' = "BodyError"
          /\ IF https.yielded
               THEN /\ apc' = "https_cleanup"
                    /\ https' = [https EXCEPT !.cause = "BodyError"]
             ELSE /\ apc' = "bar_exit"
                  /\ UNCHANGED https
    /\ UNCHANGED <<abar, ssh, sshRes, hres, cmds, aenter, afinal, cache>>
    /\ UNCHANGED notAuthVars

\* Lines 364-371: git credential-cache with the builtin exit as its action,
\* which may raise GitError; then the keychain erase, fed host and protocol
\* through _file_buffer, whose GitError is ignored; then the exception is
\* raised again
HttpsCleanup ==
    /\ apc = "https_cleanup"
    /\ LET exit == Command("credential-cache", <<>>, BuiltinExit, <<>>)
           f == _file_buffer(<<Line("host", "github.com"), Line("protocol", "https")>>)
           erase == Command("credential-osxkeychain", <<>>, "erase", f)
       IN  \/ /\ cmds' = Append(cmds, exit)
              /\ inflight' = "GitError"
              /\ UNCHANGED cache
           \/ /\ cmds' = cmds \o <<exit, erase>>
              /\ cache' = CredentialCache(cache, exit)
              /\ UNCHANGED inflight
    /\ hres' = (IF hres = Pending THEN Raising(inflight') ELSE hres)
    /\ apc' = "bar_exit"
    /\ UNCHANGED <<abar, ssh, sshRes, https, aenter, afinal>>
    /\ UNCHANGED notAuthVars

\* Lines 90 and 193-194: leaving the ProgressBar block, on return and on
\* exception alike; an exception goes on to the caller
AuthExit ==
    /\ apc = "bar_exit"
    /\ abar' = BarStop(abar)
    /\ aenter' = (IF aenter = Pending THEN Raising(inflight) ELSE aenter)
    /\ afinal' = (IF inflight = "none" THEN "return" ELSE inflight)
    /\ apc' = "done"
    /\ UNCHANGED <<ssh, sshRes, https, hres, cmds, inflight, cache>>
    /\ UNCHANGED notAuthVars

-----------------------------------------------------------------------------
(* Specifications *)

InitSlug == SlugInit /\ MergeIdle /\ ReqIdle /\ ConnIdle /\ AuthIdle

SpecSlug == InitSlug /\ [][SlugNext]_vars

InitMerge == MergeInit /\ SlugIdle /\ ReqIdle /\ ConnIdle /\ AuthIdle

NextMerge == MergeCall

SpecMerge == InitMerge /\ [][NextMerge]_vars

InitRequired == ReqInit /\ SlugIdle /\ ConnIdle /\ AuthIdle

NextRequired == CheckRequiredCall

SpecRequired == InitRequired /\ [][NextRequired]_vars

-----------------------------------------------------------------------------
(* Properties of _parse_slug *)

Slashes(n) == [k \in 1..n |-> "/"]

NoSlash(s) == \A k \in 1..Len(s) : s[k] # "/"

\* The candidate branch names of the listing the for loop walked
Candidates == {ItemValue(branches, k) : k \in {j \in 1..Len(branches.items) : ~ItemRaises(branches, j)}}

\* The part of the slug after its second "/", found without the code's indices
RestOfSlug(s, rest) ==
    \E o \in 1..Len(s) : \E r \in 0..Len(s) :
        /\ o + r + 2 <= Len(s)
        /\ NoSlash(SubSeq(s, 1, o))
        /\ s[o + 1] = "/"
        /\ NoSlash(SubSeq(s, o + 2, o + 1 + r))
        /\ s[o + r + 2] = "/"
        /\ rest = SubSeq(s, o + r + 3, Len(s))

HasEmptyOrDotSegment(p) ==
    \E k \in 1..Len(Split(p, "/")) :
        \/ Split(p, "/")[k] = <<".">>
        \/ Split(p, "/")[k] = <<>> /\ k > 1

C1_WitnessNormalised ==
    /\ spc = "returned"
    /\ sres.branch \o <<"/">> \o sres.path # remainder

MatchingCandidates == {k \in 1..Len(branches.items) :
                          ~ItemRaises(branches, k) /\ StartsWith(remainder, ItemValue(branches, k) \o <<"/">>)}

\* C2 as stated: when several candidates b satisfy "remainder starts with
\* b + '/'", the branch returned is the longest of them.
C2_AsStated ==
    spc = "returned" =>
        \A k \in MatchingCandidates : Len(ItemValue(branches, k)) <= Len(sres.branch)

\* C2 amended: when several candidates b satisfy "remainder starts with
\* b + '/'", the branch returned is the one listed first among them, whatever
\* their lengths; it is the longest only if no shorter match is listed before it.
C2_FirstListedWins ==
    spc = "returned" =>
        /\ MatchingCandidates # {}
        /\ sres.branch = ItemValue(branches, Min(MatchingCandidates))

\* C2 witness: two candidates match and the shorter one, listed first, is returned
C2_Witness ==
    /\ spc = "returned"
    /\ Cardinality(MatchingCandidates) = 2
    /\ \E k \in MatchingCandidates : Len(ItemValue(branches, k)) > Len(sres.branch)

\* C3: a slug that starts with "/", ends with "/", or both, makes _parse_slug
\* raise InvalidSlug before any branch listing, with a message of its own for
\* each of the three cases, suggesting the slug without its leading and
\* trailing slashes and nothing else removed.
C3_SlashesRejected ==
    (spc # "start" /\ (StartsWith(slug, <<"/">>) \/ EndsWith(slug, <<"/">>))) =>
        /\ spc = "raised"
        /\ sres.kind = "InvalidSlug"
        /\ calls = <<>>
        /\ sres.msg = (IF StartsWith(slug, <<"/">>) /\ EndsWith(slug, <<"/">>)
                          THEN "without the leading and trailing slashes"
                       ELSE IF StartsWith(slug, <<"/">>)
                          THEN "without the leading slash"
                       ELSE "without the trailing slash")
        /\ ~StartsWith(sres.arg, <<"/">>) /\ ~EndsWith(sres.arg, <<"/">>)
        /\ \E i \in 0..Len(slug) : \E j \in 0..Len(slug) :
              slug = Slashes(i) \o sres.arg \o Slashes(j)

\* C3 witness: a slug with slashes at both ends and text between them was rejected
C3_Witness ==
    /\ spc = "raised"
    /\ StartsWith(slug, <<"/">>) /\ EndsWith(slug, <<"/">>)
    /\ sres.arg # <<>>
    /\ Len(slug) > Len(sres.arg) + 2

InitConnect == ConnInit /\ AuthIdle

NextConnect ==
    \/ ConnectStart
    \/ ParseSlugStart
    \/ ListLocal
    \/ ListRemote
    \/ MatchBranch
    \/ ConnectResolved
    \/ ConnectFetchLocal
    \/ ConnectFetchRoot
    \/ ConnectCheckRequired
    \/ ConnectExit

SpecConnect == InitConnect /\ [][NextConnect]_vars

InitAuth == AuthInit /\ SlugIdle /\ MergeIdle /\ ReqIdle /\ ConnIdle

NextAuth ==
    \/ AuthEnter
    \/ SshSpawn
    \/ SshExpect
    \/ SshClose
    \/ SshYield
    \/ AuthAfterSsh
    \/ HttpsFill
    \/ HttpsPrompt
    \/ HttpsValidate
    \/ HttpsApprove
    \/ HttpsYield
    \/ AuthYieldHttps
    \/ Body
    \/ HttpsCleanup
    \/ AuthExit

SpecAuth == InitAuth /\ [][NextAuth]_vars

-----------------------------------------------------------------------------
(* Properties of _merge_cs50_yaml *)

\* A configuration read as plain data: tool -> key -> list or scalar
ValView(h, v) == IF v.t = "ref" THEN YList(h[v.a].elems) ELSE [t |-> "scalar", s |-> v.s]

ToolView(h, a) == [k \in DOMAIN h[a].items |-> ValView(h, h[a].items[k])]

DocView(h, d) == [t \in DOMAIN h[d].items |-> ToolView(h, h[d].items[t].a)]

LocalIn == DocView(heap0, localRef)
RootIn == DocView(heap0, rootRef)
Merged == DocView(heap, resultRef)

\* C4 as stated: the mapping _merge_cs50_yaml returns has every tool of either
\* side; a tool of one side only is that side's section unchanged; for a tool
\* of both sides a key of both sides whose root value is a sequence has root's
\* sequence followed by local's, every other local key has the local value,
\* and a key of the root section only keeps the root value.
C4_AsStated ==
    (mpc = "done" /\ mres = "return") =>
        /\ DOMAIN Merged = DOMAIN LocalIn \cup DOMAIN RootIn
        /\ \A t \in DOMAIN LocalIn \ DOMAIN RootIn : Merged[t] = LocalIn[t]
        /\ \A t \in DOMAIN RootIn \ DOMAIN LocalIn : Merged[t] = RootIn[t]
        /\ \A t \in DOMAIN RootIn \cap DOMAIN LocalIn :
              /\ DOMAIN Merged[t] = DOMAIN LocalIn[t] \cup DOMAIN RootIn[t]
              /\ \A k \in DOMAIN LocalIn[t] :
                    IF k \in DOMAIN RootIn[t] /\ RootIn[t][k].t = "list"
                        THEN Merged[t][k] = YList(RootIn[t][k].s \o LocalIn[t][k].s)
                    ELSE Merged[t][k] = LocalIn[t][k]
              /\ \A k \in DOMAIN RootIn[t] \ DOMAIN LocalIn[t] : Merged[t][k] = RootIn[t][k]

\* C5: _merge_cs50_yaml leaves every object that existed when it was called
\* (both configurations, their tool mappings and their lists) as it was,
\* whether it returns or raises.
C5_InputsNotMutated ==
    mpc = "done" =>
        /\ Len(heap) >= Len(heap0)
        /\ \A a \in 1..Len(heap0) : heap[a] = heap0[a]
        /\ DocView(heap, localRef) = LocalIn
        /\ DocView(heap, rootRef) = RootIn

\* C5 witness: the call returned a result in which a root list was extended
\* by a local list and a root scalar was overridden
C5_Witness ==
    /\ mpc = "done" /\ mres = "return"
    /\ "check50" \in DOMAIN RootIn \cap DOMAIN LocalIn
    /\ DOMAIN RootIn["check50"] = Keys /\ DOMAIN LocalIn["check50"] = Keys
    /\ RootIn["check50"]["include"] = YList(<<"y">>)
    /\ Merged["check50"]["include"] = YList(<<"y", "x">>)
    /\ RootIn["check50"]["required"].t = "scalar"
    /\ Merged["check50"]["required"] = YList(<<"x">>)

-----------------------------------------------------------------------------
(* Properties of _check_required *)

\* The required list of the section passed in, when it has one
HasRequiredList ==
    /\ "required" \in DOMAIN heap[reqRef].items
    /\ IsList(heap, heap[reqRef].items["required"])

RequiredList == heap[heap[reqRef].items["required"].a].elems

\* The lines of the message between its first and its last line
ListedMissing == LET ls == Split(rres.msg, Newline) IN [i \in 1..(Len(ls) - 2) |-> ls[i + 1][1]]

\* s is the subsequence of t picked by the increasing positions pos
IsPickedBy(s, t, pos) ==
    /\ Len(pos) = Len(s)
    /\ \A i \in 1..Len(pos) : pos[i] \in 1..Len(t) /\ s[i] = t[pos[i]]
    /\ \A i \in 1..(Len(pos) - 1) : pos[i] < pos[i + 1]

\* C6: _check_required raises Error exactly when some path of the required
\* list is not a regular file, and the message then lists all the missing
\* paths, in list order, and none that is present; when every required path
\* is a regular file, or there is no required key, it returns silently.
C6_CheckRequired ==
    rpc = "done" =>
        /\ "required" \notin DOMAIN heap[reqRef].items => rres = Returned
        /\ HasRequiredList =>
              LET missingAt == {i \in 1..Len(RequiredList) : fs[RequiredList[i]] # "file"}
              IN  /\ rres.kind = "Error" <=> missingAt # {}
                  /\ rres.kind # "Error" => rres = Returned
                  /\ rres.kind = "Error" =>
                        /\ Len(ListedMissing) = Cardinality(missingAt)
                        /\ \E pos \in [1..Cardinality(missingAt) -> missingAt] :
                              IsPickedBy(ListedMissing, RequiredList, pos)

\* C6 witness: two required paths, both missing (one is a directory), are
\* both listed, in the order of the list
C6_Witness ==
    /\ rpc = "done"
    /\ HasRequiredList
    /\ RequiredList = <<"y", "x">>
    /\ fs["y"] = "dir" /\ fs["x"] = "none"
    /\ rres.kind = "Error"
    /\ ListedMissing = <<"y", "x">>

-----------------------------------------------------------------------------
(* Properties of connect *)

ConnectDone == cpc \in {"returned", "raised"}

\* The section of the tool in the configuration at address d
SectionOf(h, d) == h[d].items[tool].a

\* Every path of the required list of the section at address a, if it has
\* one, is a regular file
RequiredAllPresent(h, a) ==
    ("required" \in DOMAIN h[a].items /\ IsList(h, h[a].items["required"])) =>
        \A i \in 1..Len(h[h[a].items["required"].a].elems) :
            fs[h[h[a].items["required"].a].elems[i]] = "file"

\* C7: when the configuration fetched at the resolved path lacks the tool key,
\* connect raises InvalidSlug, and by then the root-level configuration has
\* been neither fetched nor merged nor checked for required files; when
\* connect returns, the tool key was present, what is returned is the tool's
\* section of the configuration connect ended up with, and the last thing
\* done was a _check_required of that section that passed.
C7_ToolKeyChecked ==
    /\ (localRef # 0 /\ tool \notin DOMAIN heap[localRef].items) =>
          /\ cpc \in {"exit", "raised"}
          /\ cres.kind = "InvalidSlug"
          /\ clog = <<"get_local">>
          /\ rootResp = "none" /\ rootRef = 0 /\ reqRef = 0
    /\ cpc = "returned" =>
          /\ localRef # 0 /\ tool \in DOMAIN heap[localRef].items
          /\ cres.kind = "return"
          /\ cres.ref = SectionOf(heap, cfg)
          /\ clog[Len(clog)] = "check_required"
          /\ reqRef = cres.ref /\ rres = Returned
          /\ RequiredAllPresent(heap, cres.ref)

\* C7 witness: the local configuration was fetched without the tool key and
\* connect has raised InvalidSlug
C7_Witness ==
    /\ cpc = "raised"
    /\ localRef # 0
    /\ tool \notin DOMAIN heap[localRef].items
    /\ cres.kind = "InvalidSlug"

\* connect returned the tool's section of a merged configuration
C7_ReturnedMerged ==
    /\ cpc = "returned"
    /\ rootResp = "ok"
    /\ cfg = resultRef
    /\ "required" \in DOMAIN heap[cres.ref].items

\* What connect ends with when _check_required is given the section at
\* address a of heap h
OutcomeFor(h, a) ==
    IF _check_required(h, a, fs) = Returned
        THEN [kind |-> "return", msg |-> <<>>, ref |-> a]
    ELSE Outcome(_check_required(h, a, fs))

\* The outcome the directory-local configuration alone determines
LocalAloneOutcome == cres = OutcomeFor(heap, SectionOf(heap, localRef))

\* The outcome the merge of root and local determines
MergedOutcome ==
    LET r == _merge_cs50_yaml(heap0, localRef, rootRef)
    IN  IF r.exc # "none" THEN cres = Outcome(Raised(r.exc))
        ELSE cres = OutcomeFor(r.heap, SectionOf(r.heap, r.ref))

RootNotOkIsAbsence ==
    (ConnectDone /\ rootResp \in {"ok", "notok"}) =>
        IF rootResp = "ok" THEN MergedOutcome ELSE LocalAloneOutcome

-----------------------------------------------------------------------------
(* Properties of authenticate *)

SshYieldedUser == sshRes.kind = "yield" /\ sshRes.user # NoUser
SshYieldedNone == sshRes = Yielded(NoUser)

\* C9: authenticate tries the SSH authenticator before anything else; when
\* SSH yields a User, that User is what the caller gets and the HTTPS
\* authenticator is never started; the HTTPS authenticator runs only, and
\* always, when SSH yields None, and then what it yields or raises is what
\* the caller gets.
C9_SshThenHttps ==
    /\ (https.started \/ cmds # <<>>) => SshYieldedNone
    /\ SshYieldedUser =>
          /\ ~https.started
          /\ apc \in {"body", "bar_exit", "done"} => aenter = sshRes
    /\ (SshYieldedNone /\ apc = "done") =>
          /\ https.started
          /\ hres # Pending
          /\ aenter = hres

\* The fallback happened: SSH yielded None and the caller holds the User of
\* the HTTPS authenticator
C9_Witness ==
    /\ apc = "body"
    /\ SshYieldedNone
    /\ https.started
    /\ hres.kind = "yield"
    /\ aenter = hres

\* The fallback failed: the caller got the failure of the HTTPS authenticator
C9_HttpsFailure ==
    /\ apc = "done"
    /\ SshYieldedNone
    /\ hres.kind = "raise"
    /\ aenter = hres

\* SSH sufficed
C9_SshUser == apc = "done" /\ SshYieldedUser /\ aenter = sshRes

\* C10: whatever happens to the spawned ssh session, _authenticate_ssl does
\* not raise: it yields a User exactly when the success banner matched and
\* None otherwise, the end of the session and the timeout included.
C10_AsStated ==
    ssh.child # "none" =>
        /\ sshRes.kind # "raise"
        /\ sshRes.kind = "yield" => (sshRes.user # NoUser <=> ssh.i = 0)

\* Where a pattern matched, the result is as claimed
C10_MatchedYields ==
    (ssh.child # "none" /\ ssh.i >= 0 /\ sshRes # Pending) =>
        /\ sshRes.kind = "yield"
        /\ sshRes.user # NoUser <=> ssh.i = 0

-----------------------------------------------------------------------------
(* Properties of _authenticate_https *)

TwoFactorError == ResponseError(200, TRUE)
InvalidError == ResponseError(401, FALSE)
GenericError == ResponseError(403, FALSE)

Issued(prog) == \E i \in 1..Len(cmds) : cmds[i].prog = prog

\* _authenticate_https has ended by raising
HttpsFailed == apc \in {"bar_exit", "done"} /\ hres.kind = "raise"

\* C11: when the validation response carries the two-factor header,
\* _authenticate_https fails with the two-factor message whatever the status
\* code, never with one of the other two messages, and no credential is
\* approved.
C11_AsStated ==
    (https.otp /\ apc \in {"bar_exit", "done"}) =>
        /\ hres = Raising(TwoFactorError)
        /\ ~Issued("credential approve")

\* What does hold with the two-factor header: the check of the header comes
\* first, so the error raised at lines 340-348 is the two-factor one, nothing
\* is approved, and the other two messages never come out
C11_HeaderFirst ==
    https.otp =>
        /\ https.cause = TwoFactorError
        /\ ~Issued("credential approve")
        /\ hres.exc \notin {InvalidError, GenericError}
        /\ apc \in {"bar_exit", "done"} => hres.exc \in {TwoFactorError, "GitError"}

\* The header came with status 200 and the two-factor error went to the caller
C11_HeaderWith200 ==
    apc = "done" /\ https.otp /\ https.status = 200 /\ afinal = TwoFactorError

\* A command that makes the cache daemon drop what it holds was issued
CacheEraseIssued ==
    \E i \in 1..Len(cmds) :
        cmds[i].prog = "credential-cache" /\ cmds[i].action \in {"exit", "erase"}

\* C12: on any failure inside _authenticate_https a cache-erase command is
\* issued and a keychain erase is attempted before the error goes on, errors
\* of these commands are ignored, and the error that goes on is the original
\* one.
C12_AsStated ==
    HttpsFailed =>
        /\ CacheEraseIssued
        /\ Issued("credential-osxkeychain")
        /\ hres = Raising(https.cause)

\* What does hold on failure: git credential-cache is run, with whatever
\* action it was given, before the error goes on
C12_CacheCommandRun == HttpsFailed => Issued("credential-cache")

\* The validation failed with status 401 and the error reached the caller
C12_InvalidPassword ==
    apc = "done" /\ https.cause = InvalidError /\ afinal = InvalidError

-----------------------------------------------------------------------------
(* Properties of the User handed to the caller *)

CallerHoldsUser == aenter.kind = "yield"

\* Line 116: how the consumer tells the HTTPS path from the SSH path
LooksLikeHttps(u) == Truthy(u.password)

\* C13: the User handed out by authenticate has no password exactly when it
\* comes from the SSH path; on the HTTPS path the password is there, is not
\* empty and is the validated one, so that testing the password tells the
\* path.
C13_AsStated ==
    CallerHoldsUser =>
        /\ ~https.started => aenter.user.password = None
        /\ https.started =>
              /\ aenter.user.password = https.password
              /\ aenter.user.password.some
              /\ aenter.user.password.v # ""
        /\ LooksLikeHttps(aenter.user) <=> https.started

\* What does hold: the password is None on the SSH path, and on the HTTPS
\* path it is a str, the one sent with the validation request
C13_PresentOnHttps ==
    CallerHoldsUser =>
        /\ ~https.started => aenter.user.password = None
        /\ https.started =>
              /\ aenter.user.password = https.password
              /\ aenter.user.password.some

\* The caller holds a User of the HTTPS path whose password is the empty str
C13_EmptyPassword ==
    apc = "body" /\ https.started /\ aenter.user.password = Some("")

-----------------------------------------------------------------------------
(* Properties of the credential cache *)

\* The validation request of this run came back with success and without
\* the two-factor header
Validated == https.status = 200 /\ ~https.otp

\* Control is with the caller of authenticate: it holds the User, or the
\* with statement is over
BackWithCaller == apc \in {"body", "done"}

\* C14: in a run of _authenticate_https, approve is issued only after the
\* validation of the pair succeeded without the two-factor header; when the
\* run fails, the cache has been told to drop its entry; so whenever control
\* is back with the caller, a pair in the cache has been validated.
C14_AsStated ==
    /\ Issued("credential approve") => Validated
    /\ (https.started /\ apc = "done" /\ afinal # "return") => CacheEraseIssued
    /\ (https.started /\ BackWithCaller /\ cache.held) =>
          /\ Validated
          /\ cache.name = https.username.v
          /\ cache.password = https.password.v

\* What does hold: approve comes only after a successful validation
C14_ApproveAfterValidation == Issued("credential approve") => Validated

\* A pair that failed validation is still in the cache when the error has
\* reached the caller
C14_StaleKept ==
    /\ apc = "done"
    /\ https.cause = InvalidError
    /\ cache.held
    /\ https.password = Some(cache.password)

-----------------------------------------------------------------------------
(* Properties of the ssh child *)

\* The ssh process is no longer running: it was closed, or it ended itself
SshTerminated == ssh.child \in {"closed", "exited"}

\* C15: once _authenticate_ssl has handed anything to its caller, a User,
\* None or an exception of the wait, the ssh process it spawned is
\* terminated.
C15_AsStated == (ssh.child # "none" /\ sshRes # Pending) => SshTerminated

\* What does hold: the child is closed before anything is yielded
C15_ClosedBeforeYield == sshRes.kind = "yield" => ssh.child = "closed"

\* The wait timed out, the exception is with the caller and ssh still runs
C15_TimeoutLeavesSsh ==
    apc = "done" /\ afinal = "TIMEOUT" /\ ssh.child = "running"

-----------------------------------------------------------------------------
(* Properties of the ProgressBar *)

\* The thread of a bar was told to stop and was joined
Joined(b) == ~b.progressing /\ b.thread = "joined"

\* C16: the thread of the ProgressBar is stopped and joined whenever control
\* is with the caller: while the caller of authenticate holds the User, on
\* the SSH path and on the HTTPS path, after authenticate has ended, and
\* after connect has returned or raised; a second stop changes nothing.
C16_AsStated ==
    /\ apc = "body" => Joined(abar)
    /\ apc = "done" => Joined(abar)
    /\ cpc \in {"returned", "raised"} => Joined(cbar)
    /\ BarStop(BarStop(abar)) = BarStop(abar)
    /\ BarStop(BarStop(cbar)) = BarStop(cbar)

\* What does hold: the thread is joined when connect and authenticate have
\* ended, and while the caller holds the User of the HTTPS path
C16_JoinedAtExit ==
    /\ (apc = "body" /\ https.started) => Joined(abar)
    /\ apc = "done" => Joined(abar)
    /\ cpc \in {"returned", "raised"} => Joined(cbar)
    /\ BarStop(BarStop(abar)) = BarStop(abar)
    /\ BarStop(BarStop(cbar)) = BarStop(cbar)

\* The caller holds the User of the SSH path and the thread still runs
C16_SshBarRunning ==
    apc = "body" /\ ~https.started /\ abar.progressing /\ abar.thread = "running"

\* connect has raised and the thread of its bar is joined
C16_ConnectRaised == cpc = "raised" /\ Joined(cbar)

-----------------------------------------------------------------------------
(* Properties of the recovery block with respect to the caller *)

\* The caller raised while holding the User of the HTTPS path, and
\* _authenticate_https is over
BodyFailedOnHttps ==
    https.yielded /\ https.cause = "BodyError" /\ apc \in {"bar_exit", "done"}

\* C20: an exception the caller raises while it holds the User of the HTTPS
\* path makes the cache-erase and the keychain-erase commands run before it
\* goes on, and it goes on unchanged; the credential is then no longer
\* cached.
C20_AsStated ==
    BodyFailedOnHttps =>
        /\ CacheEraseIssued
        /\ Issued("credential-osxkeychain")
        /\ inflight = "BodyError"
        /\ ~cache.held

\* What does hold: the yield of line 360 is inside the try block, so the
\* recovery block runs and git credential-cache is called
C20_RecoveryRuns == BodyFailedOnHttps => Issued("credential-cache")

\* The caller failed while holding a validated, cached pair, and the pair
\* is still cached when the exception is back with the caller
C20_StillCached ==
    apc = "done" /\ BodyFailedOnHttps /\ afinal = "BodyError" /\ cache.held

-----------------------------------------------------------------------------
(* Properties of parse_branch *)

\* _parse_slug has ended after the for loop ran over a listing
LoopEnded == spc \in {"returned", "raised"} /\ branches # NoBranches

\* C17: the candidates are tried in listing order and the first one b with
\* "remainder starts with b + '/'" is returned, also when a longer one
\* listed later matches; when no candidate matches, _parse_slug raises
\* InvalidSlug.
C17_AsStated ==
    LoopEnded =>
        IF MatchingCandidates # {}
            THEN /\ sres.kind = "return"
                 /\ sres.branch = ItemValue(branches, Min(MatchingCandidates))
        ELSE sres.kind = "InvalidSlug"

\* What does hold: the same, as long as every line of the listing can be
\* read as a head
C17_FirstMatch ==
    (LoopEnded /\ \A k \in 1..Len(branches.items) : ~ItemRaises(branches, k)) =>
        IF MatchingCandidates # {}
            THEN /\ sres.kind = "return"
                 /\ sres.branch = ItemValue(branches, Min(MatchingCandidates))
        ELSE sres.kind = "InvalidSlug"

\* The remote listed no head and no InvalidSlug came out
C17_EmptyListing ==
    /\ spc = "raised"
    /\ branches.kind = "genexpr"
    /\ MatchingCandidates = {}
    /\ sres.kind = "IndexError"

\* The local attempt failed: the mirror could not be listed, or none of its
\* branches matched
LocalAttemptFailed ==
    \/ branches = NoBranches
    \/ branches.kind = "map" /\ ForBranch(branches, remainder, 1).kind = "nomatch"

\* C18: the cached local branches are listed first and exactly once; the
\* remote is queried only with offline false and only after the local
\* attempt failed; a local attempt that succeeds ends _parse_slug with its
\* result; with offline true the remote is never queried and the failure of
\* the local attempt is InvalidSlug to the caller.
C18_LocalThenRemote ==
    /\ [](calls \in {<<>>, <<"local">>, <<"local", "remote">>})
    /\ [](offline => calls \in {<<>>, <<"local">>})
    /\ []((spc = "returned" /\ branches.kind = "map") => calls = <<"local">>)
    /\ []((spc = "for" /\ branches.kind = "map") => calls = <<"local">>)
    /\ []((offline /\ spc = "raised") => sres.kind = "InvalidSlug")
    /\ [][calls' # calls /\ calls' = Append(calls, "remote") =>
              ~offline /\ calls = <<"local">> /\ LocalAttemptFailed]_vars
    /\ [][(spc = "for" /\ branches.kind = "map"
              /\ ForBranch(branches, remainder, 1).kind = "match") =>
              spc' = "returned" /\ sres'.branch = ForBranch(branches, remainder, 1).branch]_vars

\* The fallback happened: no cached branch matched, the remote was queried
\* and a head of the remote was returned
C18_Witness ==
    /\ ~offline
    /\ spc = "returned"
    /\ calls = <<"local", "remote">>
    /\ branches.kind = "genexpr"

\* With offline true the failure of the local attempt was final
C18_OfflineFinal ==
    offline /\ spc = "raised" /\ calls = <<"local">> /\ sres.kind = "InvalidSlug"

\* Every exception that leaves _parse_slug is InvalidSlug
C19_ListingFailures == spc = "raised" => sres.kind = "InvalidSlug"

\* No exception of the transport leaves _get_content_from, and so connect
C19_FetchFailures == cres.kind # "ConnectionError"

\* C19: whatever goes wrong while the branches are listed, locally or
\* remotely, a command that fails or a listing whose lines cannot be read as
\* heads, _parse_slug raises InvalidSlug and nothing else; whatever goes
\* wrong while remote content is fetched, _get_content_from raises Error and
\* nothing else.
C19_AsStated ==
    /\ C19_ListingFailures
    /\ C19_FetchFailures

\* A GitError of either listing command does come out as InvalidSlug
C19_GitErrorConverted ==
    (spc = "raised" /\ sres.kind # "IndexError") => sres.kind = "InvalidSlug"

\* The remote listed no head and IndexError left _parse_slug
C19_IndexErrorLeaks == spc = "raised" /\ sres.kind = "IndexError"

\* A fetch got no response and ConnectionError left connect
C19_ConnectionErrorLeaks == ConnectDone /\ cres.kind = "ConnectionError"

====
